---- MODULE Spec2Model ----
(***************************************************************************)
(* Time Window Shrinker (src/main.py).                                     *)
(*                                                                         *)
(* generate_schedule is modelled as a state machine: one step for the call *)
(* of compute_daily_step, one step per iteration of the per-day loop, one  *)
(* step for the return, and the steps of main that follow it.              *)
(*                                                                         *)
(* Python floats are IEEE-754 binary64.  A float is modelled exactly, as a *)
(* sign and a magnitude in fixed point: four limbs <<n1, n2, n3, n4>> in   *)
(* base 2^20 with value n1 + n2/2^20 + n3/2^40 + n4/2^60.  Every float the *)
(* program computes for days <= 64 is a multiple of 2^-60 below 2^20, so   *)
(* the representation is exact; each arithmetic operation computes the     *)
(* exact result and rounds it to 53 significant bits, ties to even.        *)
(***************************************************************************)
EXTENDS Integers, Naturals, Sequences, FiniteSets, TLC

VARIABLES a_min, b_min, days, finish_on_day, rounding,
          pc, L, m, d, rows, result, error, csv, collapse_hhmm, exit_code

vars == <<a_min, b_min, days, finish_on_day, rounding,
          pc, L, m, d, rows, result, error, csv, collapse_hhmm, exit_code>>

inputs == <<a_min, b_min, days, finish_on_day, rounding>>

(* ---------------------------- bounds ----------------------------------- *)

MaxDays == 8

Times == {0, 1, 13, 58, 253, 315, 540, 1260, 1350, 1439}

DaysSet == (0 - 1) .. MaxDays

Interpretations == {"inclusive", "after-steps"}

RoundingModes == {"nearest", "floor", "ceil"}

InterpretationInputs == Interpretations \cup {"weekly"}

RoundingInputs == RoundingModes \cup {"banker"}

(* ---------------------------- constants -------------------------------- *)

DAY_MIN == 24 * 60

ErrDays == "'days' must be a positive integer"

ErrEmptyWindow == "Start and end times define an empty window (L=0)"

ErrFinish == "finish_on_day must be 'inclusive' or 'after-steps'"

ErrRounding == "rounding must be 'nearest', 'floor', or 'ceil'"

NoError == "none"

(* ---------------------- binary64 arithmetic ---------------------------- *)

LimbBase == 2 ^ 20

MantissaBits == 53

RECURSIVE BitLen(_)
BitLen(x) == IF x = 0 THEN 0 ELSE 1 + BitLen(x \div 2)

\* number of significant bits of the magnitude n, counted from the 2^-60 bit
MagBitLen(n) ==
    IF n[1] > 0 THEN 60 + BitLen(n[1])
    ELSE IF n[2] > 0 THEN 40 + BitLen(n[2])
    ELSE IF n[3] > 0 THEN 20 + BitLen(n[3])
    ELSE BitLen(n[4])

\* propagate carries so that the three fraction limbs are below LimbBase
Carry(n) ==
    LET n4 == n[4] % LimbBase
        t3 == n[3] + (n[4] \div LimbBase)
        n3 == t3 % LimbBase
        t2 == n[2] + (t3 \div LimbBase)
        n2 == t2 % LimbBase
        n1 == n[1] + (t2 \div LimbBase)
    IN  <<n1, n2, n3, n4>>

\* round the exact magnitude n (plus a nonzero tail below 2^-60 when sticky)
\* to 53 significant bits, round-to-nearest, ties-to-even
Round53(n, sticky) ==
    LET s == MagBitLen(n) - MantissaBits
    IN  IF s <= 0 THEN n
        ELSE LET unit == 2 ^ s
                 low  == n[4] % unit
                 q    == n[4] \div unit
                 half == unit \div 2
                 up   == \/ low > half
                         \/ low = half /\ (sticky \/ q % 2 = 1)
             IN  Carry(<<n[1], n[2], n[3], (q + (IF up THEN 1 ELSE 0)) * unit>>)

MkFloat(neg, n) == [neg |-> neg, n |-> n]

FloatZero == MkFloat(FALSE, <<0, 0, 0, 0>>)

FracIsZero(n) == n[2] = 0 /\ n[3] = 0 /\ n[4] = 0

\* x / y for integers x >= 0, y > 0 converted to float: correctly rounded
FDivInt(x, y) ==
    LET q1 == x \div y
        t2 == (x % y) * LimbBase
        q2 == t2 \div y
        t3 == (t2 % y) * LimbBase
        q3 == t3 \div y
        t4 == (t3 % y) * LimbBase
        q4 == t4 \div y
    IN  MkFloat(FALSE, Round53(<<q1, q2, q3, q4>>, (t4 % y) # 0))

\* k * x for an integer k >= 0 and a float x >= 0
FMulInt(k, x) ==
    MkFloat(FALSE,
            Round53(Carry(<<k * x.n[1], k * x.n[2], k * x.n[3], k * x.n[4]>>),
                    FALSE))

\* a + x for an integer a >= 0 and a float x >= 0
IntPlus(a, x) ==
    MkFloat(FALSE, Round53(<<a + x.n[1], x.n[2], x.n[3], x.n[4]>>, FALSE))

\* b - x for an integer b >= 0 and a float x >= 0
IntMinus(b, x) ==
    IF x.n[1] < b \/ (x.n[1] = b /\ FracIsZero(x.n))
    THEN IF FracIsZero(x.n)
         THEN MkFloat(FALSE, <<b - x.n[1], 0, 0, 0>>)
         ELSE MkFloat(FALSE,
                      Round53(Carry(<<b - x.n[1] - 1,
                                      LimbBase - 1 - x.n[2],
                                      LimbBase - 1 - x.n[3],
                                      LimbBase - x.n[4]>>), FALSE))
    ELSE MkFloat(TRUE, Round53(<<x.n[1] - b, x.n[2], x.n[3], x.n[4]>>, FALSE))

\* x + 0.5 for x >= 0, and x - 0.5 for x < 0
AwayHalf(x) ==
    MkFloat(x.neg,
            Round53(Carry(<<x.n[1], x.n[2] + LimbBase \div 2, x.n[3], x.n[4]>>),
                    FALSE))

\* math.floor, and x // 1
FloatFloor(x) ==
    IF ~x.neg THEN x.n[1]
    ELSE 0 - (x.n[1] + (IF FracIsZero(x.n) THEN 0 ELSE 1))

\* math.ceil, and -(-x // 1)
FloatCeil(x) ==
    IF ~x.neg THEN x.n[1] + (IF FracIsZero(x.n) THEN 0 ELSE 1)
    ELSE 0 - x.n[1]

\* x % DAY_MIN for a float x >= 0
FloatModDay(x) == MkFloat(FALSE, <<x.n[1] % DAY_MIN, x.n[2], x.n[3], x.n[4]>>)

\* the built-in round(x) for a float x >= 0: ties go to the even integer
BuiltinRound(x) ==
    LET halfLimb == LimbBase \div 2
        above == x.n[2] > halfLimb
                 \/ (x.n[2] = halfLimb /\ (x.n[3] # 0 \/ x.n[4] # 0))
        tie   == x.n[2] = halfLimb /\ x.n[3] = 0 /\ x.n[4] = 0
    IN  IF above \/ (tie /\ x.n[1] % 2 = 1) THEN x.n[1] + 1 ELSE x.n[1]

(* --------------------------- utilities --------------------------------- *)

round_half_away_from_zero(value) ==
    IF ~value.neg THEN FloatFloor(AwayHalf(value))
    ELSE FloatCeil(AwayHalf(value))

\* "HH:mm" as the pair <<HH, mm>>
hhmm(minutes) ==
    LET mins == minutes % DAY_MIN
    IN  <<mins \div 60, mins % 60>>

ScheduleRow(day_id, start_min, end_min) ==
    [day_id |-> day_id, start_min |-> start_min, end_min |-> end_min]

start_str(r) == hhmm(r.start_min)

end_str(r) == hhmm(r.end_min)

(* ------------------------- core algorithm ------------------------------ *)

window_length_abs(a, b) == IF b >= a THEN b - a ELSE a - b

window_length(a, b) == (b - a) % DAY_MIN

WindowIsEmpty_never(len) == len < 0

WindowIsEmpty(len) == len = 0

InclusiveStep_offByOne(len, n) == FDivInt(len, 2 * n)

InclusiveStep(len, n) == FDivInt(len, 2 * (n - 1))

AfterStepsStep_offByOne(len, n) == FDivInt(len, 2 * (n + 1))

AfterStepsStep(len, n) == FDivInt(len, 2 * n)

\* the outcome of compute_daily_step: the error raised, or the step m
compute_daily_step(a, b, n, finish) ==
    IF n <= 0 THEN [err |-> ErrDays, m |-> FloatZero]
    ELSE IF WindowIsEmpty(window_length(a, b))
         THEN [err |-> ErrEmptyWindow, m |-> FloatZero]
    ELSE IF finish = "inclusive"
         THEN IF n = 1 THEN [err |-> NoError, m |-> FloatZero]
              ELSE [err |-> NoError, m |-> InclusiveStep(window_length(a, b), n)]
    ELSE IF finish = "after-steps"
         THEN [err |-> NoError, m |-> AfterStepsStep(window_length(a, b), n)]
    ELSE [err |-> ErrFinish, m |-> FloatZero]

RoundingRaises_never(policy) == FALSE

\* _round falls through to its raise
RoundingRaises(policy) == policy \notin {"nearest", "floor", "ceil"}

\* _round, for a policy that does not raise
RoundTo(policy, x) ==
    IF policy = "nearest" THEN round_half_away_from_zero(x)
    ELSE IF policy = "floor" THEN FloatFloor(x)
    ELSE IF policy = "ceil" THEN FloatCeil(x)
    ELSE round_half_away_from_zero(x)

Offset(day, step) == FMulInt(day - 1, step)

RawStart(a, offset) == IntPlus(a, offset)

RawEnd_plus(b, offset) == IntPlus(b, offset)

RawEnd(b, offset) == IntMinus(b, offset)

\* the row the loop body appends on day `day`
RowAt(a, b, day, step, policy) ==
    ScheduleRow(day,
                RoundTo(policy, RawStart(a, Offset(day, step))),
                RoundTo(policy, RawEnd(b, Offset(day, step))))

LoopDone_short(day, n) == day >= n

\* range(1, days + 1) is exhausted
LoopDone(day, n) == day > n

\* the rows generate_schedule returns for an input on which it does not raise
ScheduleOf(a, b, n, finish, policy) ==
    [i \in 1 .. n |-> RowAt(a, b, i, compute_daily_step(a, b, n, finish).m, policy)]

(* ----------------------------- state machine --------------------------- *)

Init ==
    /\ a_min \in Times
    /\ b_min \in Times
    /\ days \in DaysSet
    /\ finish_on_day \in InterpretationInputs
    /\ rounding \in RoundingInputs
    /\ pc = "call"
    /\ L = 0 - 1
    /\ m = FloatZero
    /\ d = 0
    /\ rows = <<>>
    /\ result = <<>>
    /\ error = NoError
    /\ csv = <<>>
    /\ collapse_hhmm = <<>>
    /\ exit_code = 0 - 1

\* m = compute_daily_step(a_min, b_min, days, finish_on_day); rows = []
CallComputeDailyStep ==
    /\ pc = "call"
    /\ LET r == compute_daily_step(a_min, b_min, days, finish_on_day)
       IN  /\ L' = IF days <= 0 THEN L ELSE window_length(a_min, b_min)
           /\ IF r.err # NoError
              THEN /\ error' = r.err
                   /\ pc' = "failed"
                   /\ UNCHANGED <<m, d>>
              ELSE /\ m' = r.m
                   /\ d' = 1
                   /\ pc' = "loop"
                   /\ UNCHANGED error
    /\ UNCHANGED <<inputs, rows, result, csv, collapse_hhmm, exit_code>>

\* one iteration of `for d in range(1, days + 1)`, in either branch
LoopBody ==
    /\ pc = "loop"
    /\ ~LoopDone(d, days)
    /\ IF RoundingRaises(rounding)
       THEN /\ error' = ErrRounding
            /\ pc' = "failed"
            /\ UNCHANGED <<rows, d>>
       ELSE /\ rows' = Append(rows, RowAt(a_min, b_min, d, m, rounding))
            /\ d' = d + 1
            /\ UNCHANGED <<error, pc>>
    /\ UNCHANGED <<inputs, L, m, result, csv, collapse_hhmm, exit_code>>

\* return rows
Return ==
    /\ pc = "loop"
    /\ LoopDone(d, days)
    /\ result' = rows
    /\ pc' = "returned"
    /\ UNCHANGED <<inputs, L, m, d, rows, error, csv, collapse_hhmm, exit_code>>

\* main after generate_schedule returned: write_csv and the summary
MainSummary ==
    /\ pc = "returned"
    /\ csv' = [i \in 1 .. Len(result) |->
                 <<result[i].day_id, start_str(result[i]), end_str(result[i])>>]
    /\ collapse_hhmm' =
         hhmm(BuiltinRound(FloatModDay(
                IntPlus(a_min, FDivInt(window_length(a_min, b_min), 2)))))
    /\ exit_code' = 0
    /\ pc' = "done"
    /\ UNCHANGED <<inputs, L, m, d, rows, result, error>>

\* main when generate_schedule raised: parser.error exits with status 2
MainError ==
    /\ pc = "failed"
    /\ finish_on_day \in Interpretations
    /\ rounding \in RoundingModes
    /\ exit_code' = 2
    /\ pc' = "exited"
    /\ UNCHANGED <<inputs, L, m, d, rows, result, error, csv, collapse_hhmm>>

Next ==
    \/ CallComputeDailyStep
    \/ LoopBody
    \/ Return
    \/ MainSummary
    \/ MainError

Spec == Init /\ [][Next]_vars

(* ------------------------------ properties ----------------------------- *)

ValidInput ==
    /\ a_min # b_min
    /\ days >= 1
    /\ finish_on_day \in Interpretations
    /\ rounding \in RoundingModes

Returned == pc \in {"returned", "done"}

Failed == pc \in {"failed", "exited"}

\* forward window length of a row on the 24h clock
ForwardLength(r) == (r.end_min - r.start_min) % DAY_MIN

\* distance between two minutes on the 24h clock face
ClockDistance(x, y) ==
    IF (x - y) % DAY_MIN <= (y - x) % DAY_MIN
    THEN (x - y) % DAY_MIN ELSE (y - x) % DAY_MIN

\* C1: on every valid input, under both interpretations, generate_schedule
\* does not raise and returns exactly `days` rows, the i-th carrying day
\* index i.
C1_RowCount ==
    ValidInput =>
        /\ ~Failed
        /\ Returned =>
             /\ Len(result) = days
             /\ \A i \in 1 .. Len(result) : result[i].day_id = i

C1_Witness ==
    /\ pc = "returned"
    /\ finish_on_day = "after-steps"
    /\ days >= 3
    /\ Len(result) = days

\* C2 as stated: for inclusive, days > 1, the forward window length
\* (end - start) mod 1440 never grows from one row to the next.
C2_ForwardLengthMonotone ==
    (Returned /\ ValidInput /\ finish_on_day = "inclusive" /\ days > 1) =>
        \A i \in 1 .. (Len(result) - 1) :
            ForwardLength(result[i + 1]) <= ForwardLength(result[i])

\* C2 amended: for inclusive, days > 1, the stored start minutes are
\* non-decreasing and the stored end minutes are non-increasing from one row
\* to the next, so the signed difference end - start never grows.
C2_StartEndMonotone ==
    (Returned /\ ValidInput /\ finish_on_day = "inclusive" /\ days > 1) =>
        \A i \in 1 .. (Len(result) - 1) :
            /\ result[i + 1].start_min >= result[i].start_min
            /\ result[i + 1].end_min <= result[i].end_min
            /\ result[i + 1].end_min - result[i + 1].start_min
                 <= result[i].end_min - result[i].start_min

C2_Witness ==
    /\ pc = "returned"
    /\ ValidInput
    /\ finish_on_day = "inclusive"
    /\ days > 1
    /\ ForwardLength(result[days]) > ForwardLength(result[days - 1])
    /\ result[days].start_min > result[1].start_min

\* C3: for inclusive, days > 1, rounding nearest, the start and end of the
\* final row are at most one minute apart on the 24h clock.
C3_Collapse ==
    (Returned /\ ValidInput /\ finish_on_day = "inclusive" /\ days > 1
       /\ rounding = "nearest") =>
        ClockDistance(result[days].start_min, result[days].end_min) <= 1

C3_Witness ==
    /\ pc = "returned"
    /\ finish_on_day = "inclusive"
    /\ rounding = "nearest"
    /\ days > 1
    /\ a_min > b_min
    /\ window_length(a_min, b_min) % 2 = 1
    /\ ClockDistance(result[days].start_min, result[days].end_min) = 1

\* C4 as stated: when start equals end, the call fails with the empty-window
\* error and returns no rows, whatever days and interpretation are.
C4_EmptyWindowAlways ==
    (a_min = b_min /\ pc # "call") =>
        /\ Failed
        /\ error = ErrEmptyWindow
        /\ result = <<>>

\* C4 amended: when start equals end and days >= 1, the call fails with the
\* empty-window error and returns no rows, whatever the interpretation is
\* (recognized or not); with days <= 0 the days error is raised instead.
C4_EmptyWindowPositiveDays ==
    (a_min = b_min /\ pc # "call") =>
        /\ Failed
        /\ result = <<>>
        /\ rows = <<>>
        /\ error = IF days >= 1 THEN ErrEmptyWindow ELSE ErrDays

C4_Witness ==
    /\ a_min = b_min
    /\ days >= 2
    /\ finish_on_day = "weekly"
    /\ pc = "failed"
    /\ error = ErrEmptyWindow

\* C5: the window length computed for clock minutes a, b is in 0..1439, is
\* b - a when b >= a and b - a + 1440 when b < a, is 0 exactly when a = b,
\* and is 405 for 22:30 -> 05:15.
C5_WindowLength ==
    /\ (pc # "call" /\ days >= 1) =>
          /\ L \in 0 .. 1439
          /\ (b_min >= a_min => L = b_min - a_min)
          /\ (b_min < a_min => L = b_min - a_min + 1440)
          /\ (L = 0 <=> a_min = b_min)
    /\ (a_min = 1350 /\ b_min = 315 /\ pc # "call" /\ days >= 1) => L = 405

C5_Witness ==
    /\ a_min = 1350
    /\ b_min = 315
    /\ pc = "loop"
    /\ L = 405

\* C6: every returned row holds clock minutes: 0 <= start <= 1439 and
\* 0 <= end <= 1439.
C6_RowsNormalized ==
    Returned =>
        \A i \in 1 .. Len(result) :
            /\ result[i].start_min \in 0 .. 1439
            /\ result[i].end_min \in 0 .. 1439

\* C7: the step m is >= 0; it is 0 for inclusive with days = 1; for
\* inclusive with days > 1 the offset of the last day, (days - 1) * m, is
\* exactly L / 2; for after-steps days * m is exactly L / 2.
C7_StepExact ==
    (pc \in {"loop", "returned", "done"}) =>
        /\ ~m.neg
        /\ (finish_on_day = "inclusive" /\ days = 1) => m = FloatZero
        /\ (finish_on_day = "inclusive" /\ days > 1) =>
               FMulInt(days - 1, m) = FDivInt(L, 2)
        /\ (finish_on_day = "after-steps") =>
               FMulInt(days, m) = FDivInt(L, 2)

\* C8: on an otherwise valid input with an unrecognized rounding name the
\* call fails with the rounding error in the first loop iteration: no row is
\* ever built, nothing is returned and nothing is written.
C8_InvalidRounding ==
    (a_min # b_min /\ days >= 1 /\ finish_on_day \in Interpretations
       /\ rounding \notin RoundingModes) =>
        /\ ~Returned
        /\ result = <<>>
        /\ rows = <<>>
        /\ csv = <<>>
        /\ (pc = "loop" => d = 1)
        /\ (Failed => error = ErrRounding)

C8_Witness ==
    /\ a_min # b_min
    /\ days >= 2
    /\ finish_on_day = "after-steps"
    /\ rounding = "banker"
    /\ pc = "failed"
    /\ error = ErrRounding

\* C9: the rows returned for after-steps with N days are, row for row, the
\* first N rows of the inclusive schedule of the same window and rounding
\* with N + 1 days.
C9_AfterStepsPrefix ==
    (Returned /\ ValidInput /\ finish_on_day = "after-steps") =>
        result = SubSeq(ScheduleOf(a_min, b_min, days + 1, "inclusive", rounding),
                        1, days)

C9_Witness ==
    /\ pc = "returned"
    /\ finish_on_day = "after-steps"
    /\ rounding = "floor"
    /\ days >= 3
    /\ a_min > b_min
    /\ result[days].start_min > result[1].start_min

\* C10: for days > 1, inclusive, rounding nearest, the hour zero that main
\* prints equals the formatted start of the final row.
C10_HourZeroAgrees ==
    (pc = "done" /\ finish_on_day = "inclusive" /\ rounding = "nearest"
       /\ days > 1) =>
        collapse_hhmm = start_str(result[days])

====
